---- MODULE Spec2Model ----
(***************************************************************************)
(* Operational scripts of prismy-production:                               *)
(*   - infrastructure/lambda/package/rotate-secret.py  (rotation handler)  *)
(*   - infrastructure/lambda/package/db-maintenance.py (maintenance)       *)
(*   - deploy_via_python.py                            (deployment runner) *)
(* Each component is an independent entry point and has its own            *)
(* specification over its own variables; the variables of the other        *)
(* components stay at their idle values.                                   *)
(***************************************************************************)
EXTENDS Integers, Sequences, FiniteSets, TLC

VARIABLES
    \* rotation handler: the secrets store (version id -> record), the database
    \* account's password, the record of the last invocation, and the tokens
    \* whose testSecret has succeeded (history)
    versions, dbPassword, last, tested,
    \* overlapping createSecret invocations: for each, its position in
    \* create_secret and its local variables
    invocations,
    \* generate_password: the list being built, and the position in the function
    password, pwPc,
    \* maintenance handler: position, the result list, the report, the alert and
    \* failure notifications attempted, the response
    mPc, maintenance_results, report, alerts, response,
    \* deployment runner: position, the commands run with their outcome, what
    \* was printed, the exit status
    dPc, ran, printed, exitStatus

rotVars == <<versions, dbPassword, last, tested, invocations>>
pwVars == <<password, pwPc>>
maintVars == <<mPc, maintenance_results, report, alerts, response>>
deployVars == <<dPc, ran, printed, exitStatus>>
vars == <<rotVars, pwVars, maintVars, deployVars>>

(***************************************************************************)
(* Bounds                                                                  *)
(***************************************************************************)
MaxTokens == 1
MaxPasswords == 2
MaxResults == 3
MaxOverlap == 2

(***************************************************************************)
(* Rotation handler (rotate-secret.py)                                     *)
(***************************************************************************)
Tokens == 1..MaxTokens
VersionIds == 0..MaxTokens
\* the version that is current before any rotation: not a request token
InitialVersion == CHOOSE v \in VersionIds : v \notin Tokens
Passwords == 1..MaxPasswords
\* the 'engine' entry of the credential record; "absent" is a record with no such key
Engines == {"postgres", "postgresql", "mysql", "oracle", "absent"}

CURRENT == "AWSCURRENT"
PENDING == "AWSPENDING"

Steps == {"createSecret", "setSecret", "testSecret", "finishSecret"}

\* ---- the secrets store, as the handler's calls use it --------------------
\* versions: version id -> [password, engine, stages]; DOMAIN = existing versions

Holders(vs, stage) == {v \in DOMAIN vs : stage \in vs[v].stages}

\* get_secret_value(SecretId, VersionStage=stage, VersionId=v) finds a value
StageOnVersion(vs, stage, v) == v \in DOMAIN vs /\ stage \in vs[v].stages

\* get_secret_value(SecretId, VersionStage=stage) finds a value
StageFound(vs, stage) == Holders(vs, stage) # {}

\* ... and the version it returns
StageVersion(vs, stage) == CHOOSE v \in Holders(vs, stage) : TRUE

SecretData(vs, v) == [password |-> vs[v].password, engine |-> vs[v].engine]

\* (mutant: a put for an existing version with other content is not rejected)
PutAccepted_Always(vs, t, data) == TRUE

\* put_secret_value(ClientRequestToken=t, SecretString=data, VersionStages=[stage]):
\* rejected when version t exists with other content
PutAccepted(vs, t, data) == t \notin DOMAIN vs \/ SecretData(vs, t) = data

\* (mutant: the new version is labeled AWSCURRENT as well)
PutSecretValue_LabelsCurrent(vs, t, data, stage) ==
    IF t \in DOMAIN vs THEN vs
    ELSE [v \in DOMAIN vs \cup {t} |->
            IF v = t
            THEN [password |-> data.password, engine |-> data.engine,
                  stages |-> {stage, CURRENT}]
            ELSE [vs[v] EXCEPT !.stages = @ \ {stage, CURRENT}]]

\* a new version t labeled stage (the label leaves any other version); a repeat
\* of the same content for an existing version is ignored
PutSecretValue(vs, t, data, stage) ==
    IF t \in DOMAIN vs THEN vs
    ELSE [v \in DOMAIN vs \cup {t} |->
            IF v = t
            THEN [password |-> data.password, engine |-> data.engine, stages |-> {stage}]
            ELSE [vs[v] EXCEPT !.stages = @ \ {stage}]]

\* update_secret_version_stage(VersionStage=stage, ClientRequestToken=moveTo,
\* RemoveFromVersionId=removeFrom). finish_secret names the target version by
\* ClientRequestToken; the call is read as moving the label to that version and
\* does what its arguments say: the label is attached to moveTo and detached
\* from removeFrom, no other label is touched. It is rejected when the target
\* version is missing; a client that refuses the call altogether is the
\* "update_stage" fault of FinishSecret.
\* (mutant: the call is accepted whatever version it names)
UpdateAccepted_Always(vs, moveTo) == TRUE

UpdateAccepted(vs, moveTo) == moveTo \in DOMAIN vs

UpdateSecretVersionStage(vs, stage, moveTo, removeFrom) ==
    [v \in DOMAIN vs |->
        IF v = moveTo THEN [vs[v] EXCEPT !.stages = @ \cup {stage}]
        ELSE IF v = removeFrom THEN [vs[v] EXCEPT !.stages = @ \ {stage}]
        ELSE vs[v]]

\* ---- the record of the last invocation ----------------------------------
\* outcome: "ok" the handler returned its status-200 record; "env_error" an
\* external call failed for a reason outside the store/database state (network,
\* throttling); "error" the handler raised because of the state or the event
\* notif: the calls of send_rotation_notification, in order; calls: how many
\* times the step's function was called; connect_called: the step went as far
\* as opening a database connection; response: what the caller gets
NoNotification == <<>>
Deliveries == {"sent", "skipped", "error"}

\* (mutant: the handler returns its record whatever the step did)
HandlerResponse_Swallows(outcome) == "200"

\* "return {'statusCode': 200, ...}" after the dispatch; "except Exception: raise"
HandlerResponse(outcome) == IF outcome = "ok" THEN "200" ELSE "raised"

\* an invocation that called the function of its step
Result(step, t, outcome, put, notif) ==
    [step |-> step, token |-> t, outcome |-> outcome, put |-> put, notif |-> notif,
     calls |-> 1, connect_called |-> FALSE, response |-> HandlerResponse(outcome)]

\* an invocation that raised before it called any step function
NotDispatched(step, t, outcome) ==
    [Result(step, t, outcome, FALSE, NoNotification) EXCEPT !.calls = 0]

\* ... and one whose step function called psycopg2.connect / pymysql.connect
Connected(result) == [result EXCEPT !.connect_called = TRUE]

\* the outcome of a call that fails when the environment says so (fault = call)
\* or when the state says so (missing)
Raised(fault, call, missing) ==
    IF fault = call THEN "env_error" ELSE IF missing THEN "error" ELSE "ok"

\* ---- create_secret ------------------------------------------------------
\* (mutant: the existence check never finds the pending version)
PendingExists_Never(vs, t) == FALSE

\* "Check if pending secret already exists": a version that exists without the
\* AWSPENDING label counts as not found
PendingExists(vs, t) == StageOnVersion(vs, PENDING, t)

CreateFaults == {"none", "describe_secret", "get_pending", "get_current", "put_secret_value"}

CreateSecret(t) ==
    \E fault \in CreateFaults :
        /\ UNCHANGED <<dbPassword, tested>>
        /\ IF fault = "describe_secret"
           THEN /\ last' = NotDispatched("createSecret", t, "env_error")
                /\ UNCHANGED versions
           ELSE IF fault = "get_pending"
           THEN /\ last' = Result("createSecret", t, "env_error", FALSE, NoNotification)
                /\ UNCHANGED versions
           ELSE IF PendingExists(versions, t)
           THEN /\ last' = Result("createSecret", t, "ok", FALSE, NoNotification)
                /\ UNCHANGED versions
           ELSE IF Raised(fault, "get_current", ~StageFound(versions, CURRENT)) # "ok"
           THEN /\ last' = Result("createSecret", t,
                        Raised(fault, "get_current", ~StageFound(versions, CURRENT)),
                        FALSE, NoNotification)
                /\ UNCHANGED versions
           ELSE \E new_password \in Passwords :   \* generate_password()
                LET current_secret_data == SecretData(versions, StageVersion(versions, CURRENT))
                    new_secret_data == [current_secret_data EXCEPT !.password = new_password]
                    put == Raised(fault, "put_secret_value",
                                  ~PutAccepted(versions, t, new_secret_data))
                IN  /\ last' = Result("createSecret", t, put, TRUE, NoNotification)
                    /\ versions' = IF put = "ok"
                                   THEN PutSecretValue(versions, t, new_secret_data, PENDING)
                                   ELSE versions

\* ---- the database account ----------------------------------------------
\* psycopg2.connect / pymysql.connect with the record's username and password
ConnectOk(data, db) == data.password = db

\* (mutant: any other engine is handled as the default)
SupportedEngine_Any(engine) == TRUE

\* "if engine in ['postgres', 'postgresql'] ... elif engine == 'mysql' ... else:
\* raise ValueError"; engine is .get('engine', 'postgres')
SupportedEngine(engine) == engine \in {"postgres", "postgresql", "mysql", "absent"}

\* ---- set_secret ---------------------------------------------------------
SetFaults == {"none", "describe_secret", "get_pending", "get_current", "connect", "execute"}

\* (mutant: the statement carries the password of the current record)
SetPassword_CurrentPassword(current_secret, new_secret, db, fault) ==
    IF Raised(fault, "connect", ~ConnectOk(current_secret, db)) # "ok"
    THEN [outcome |-> Raised(fault, "connect", ~ConnectOk(current_secret, db)), db |-> db]
    ELSE IF fault = "execute"
    THEN [outcome |-> "env_error", db |-> db]
    ELSE [outcome |-> "ok", db |-> current_secret.password]

\* set_postgres_password / set_mysql_password: connect as the current record,
\* ALTER USER <new_secret.username> PASSWORD <new_secret.password>, commit
SetPassword(current_secret, new_secret, db, fault) ==
    IF Raised(fault, "connect", ~ConnectOk(current_secret, db)) # "ok"
    THEN [outcome |-> Raised(fault, "connect", ~ConnectOk(current_secret, db)), db |-> db]
    ELSE IF fault = "execute"
    THEN [outcome |-> "env_error", db |-> db]
    ELSE [outcome |-> "ok", db |-> new_secret.password]

SetSecret(t) ==
    \E fault \in SetFaults :
        /\ UNCHANGED <<versions, tested>>
        /\ IF fault = "describe_secret"
           THEN /\ last' = NotDispatched("setSecret", t, "env_error")
                /\ UNCHANGED dbPassword
           ELSE IF Raised(fault, "get_pending", ~StageOnVersion(versions, PENDING, t)) # "ok"
           THEN /\ last' = Result("setSecret", t,
                        Raised(fault, "get_pending", ~StageOnVersion(versions, PENDING, t)),
                        FALSE, NoNotification)
                /\ UNCHANGED dbPassword
           ELSE IF Raised(fault, "get_current", ~StageFound(versions, CURRENT)) # "ok"
           THEN /\ last' = Result("setSecret", t,
                        Raised(fault, "get_current", ~StageFound(versions, CURRENT)),
                        FALSE, NoNotification)
                /\ UNCHANGED dbPassword
           ELSE LET pending_secret_data == SecretData(versions, t)
                    current_secret_data == SecretData(versions, StageVersion(versions, CURRENT))
                    r == SetPassword(current_secret_data, pending_secret_data, dbPassword, fault)
                IN  IF ~SupportedEngine(current_secret_data.engine)
                    THEN /\ last' = Result("setSecret", t, "error", FALSE, NoNotification)
                         /\ UNCHANGED dbPassword
                    ELSE /\ last' = Connected(Result("setSecret", t, r.outcome, FALSE,
                                                      NoNotification))
                         /\ dbPassword' = r.db

\* ---- test_secret --------------------------------------------------------
TestFaults == {"none", "describe_secret", "get_pending", "connect", "execute"}

\* test_postgres_connection / test_mysql_connection: connect as the record, SELECT 1
TestConnection(secret_data, db, fault) ==
    IF Raised(fault, "connect", ~ConnectOk(secret_data, db)) # "ok"
    THEN Raised(fault, "connect", ~ConnectOk(secret_data, db))
    ELSE IF fault = "execute" THEN "env_error" ELSE "ok"

TestSecret(t) ==
    \E fault \in TestFaults :
        /\ UNCHANGED <<versions, dbPassword>>
        /\ IF fault = "describe_secret"
           THEN /\ last' = NotDispatched("testSecret", t, "env_error")
                /\ UNCHANGED tested
           ELSE IF Raised(fault, "get_pending", ~StageOnVersion(versions, PENDING, t)) # "ok"
           THEN /\ last' = Result("testSecret", t,
                        Raised(fault, "get_pending", ~StageOnVersion(versions, PENDING, t)),
                        FALSE, NoNotification)
                /\ UNCHANGED tested
           ELSE LET pending_secret_data == SecretData(versions, t)
                    r == IF SupportedEngine(pending_secret_data.engine)
                         THEN TestConnection(pending_secret_data, dbPassword, fault)
                         ELSE "error"
                IN  /\ last' = IF SupportedEngine(pending_secret_data.engine)
                               THEN Connected(Result("testSecret", t, r, FALSE, NoNotification))
                               ELSE Result("testSecret", t, r, FALSE, NoNotification)
                    /\ tested' = IF r = "ok" THEN tested \cup {t} ELSE tested

\* ---- finish_secret ------------------------------------------------------
FinishFaults == {"none", "describe_secret", "get_current", "update_stage"}

\* (mutant: asks for the version staged AWSPENDING)
GetCurrentVersionId_WrongStage(vs) ==
    IF StageFound(vs, PENDING) THEN StageVersion(vs, PENDING) ELSE StageVersion(vs, CURRENT)

\* get_current_version_id: the VersionId of get_secret_value(VersionStage="AWSCURRENT")
GetCurrentVersionId(vs) == StageVersion(vs, CURRENT)

\* one call of send_rotation_notification(secret_arn, status)
Notification(status, delivery) == <<[status |-> status, delivery |-> delivery]>>

\* (mutant: an error of the publish call leaves send_rotation_notification)
AfterNotification_Propagates(outcome, delivery) ==
    IF delivery = "error" THEN "error" ELSE outcome

\* send_rotation_notification returns without publishing when no topic is set
\* and catches every error of the publish call: finish_secret goes on as it was
AfterNotification(outcome, delivery) == outcome

FinishSecret(t) ==
    \E fault \in FinishFaults :
        /\ UNCHANGED <<dbPassword, tested>>
        /\ IF fault = "describe_secret"
           THEN /\ last' = NotDispatched("finishSecret", t, "env_error")
                /\ UNCHANGED versions
           ELSE \E delivery \in Deliveries :
                IF Raised(fault, "get_current", ~StageFound(versions, CURRENT)) # "ok"
                THEN /\ last' = Result("finishSecret", t,
                             AfterNotification(
                                 Raised(fault, "get_current", ~StageFound(versions, CURRENT)),
                                 delivery),
                             FALSE, Notification("FAILED", delivery))
                     /\ UNCHANGED versions
                ELSE IF Raised(fault, "update_stage", ~UpdateAccepted(versions, t)) # "ok"
                THEN /\ last' = Result("finishSecret", t,
                             AfterNotification(
                                 Raised(fault, "update_stage", ~UpdateAccepted(versions, t)),
                                 delivery),
                             FALSE, Notification("FAILED", delivery))
                     /\ UNCHANGED versions
                ELSE /\ last' = Result("finishSecret", t, AfterNotification("ok", delivery),
                                       FALSE, Notification("SUCCESS", delivery))
                     /\ versions' = UpdateSecretVersionStage(versions, CURRENT, t,
                                                             GetCurrentVersionId(versions))

\* ---- lambda_handler -----------------------------------------------------
\* (mutant: a step name that is none of the four is passed over)
InvalidStep_Returns(t) ==
    /\ last' = NotDispatched("invalidStep", t, "ok")
    /\ UNCHANGED <<versions, dbPassword, tested>>

\* a step name that is none of the four: "else: raise ValueError", after
\* describe_secret
InvalidStep(t) ==
    \E fault \in {"none", "describe_secret"} :
        /\ last' = NotDispatched("invalidStep", t, Raised(fault, "describe_secret", TRUE))
        /\ UNCHANGED <<versions, dbPassword, tested>>

lambda_handler(step, t) ==
    CASE step = "createSecret" -> CreateSecret(t)
      [] step = "setSecret"    -> SetSecret(t)
      [] step = "testSecret"   -> TestSecret(t)
      [] step = "finishSecret" -> FinishSecret(t)
      [] OTHER                 -> InvalidStep(t)

\* ---- idle values of each component's variables --------------------------
RotationIdle ==
    /\ versions = <<>> /\ dbPassword = 0 /\ tested = {} /\ invocations = <<>>
    /\ last = Result("none", InitialVersion, "ok", FALSE, NoNotification)
PasswordIdle == password = <<>> /\ pwPc = "idle"
\* what the caller of the maintenance handler gets: status "200" with the
\* report, or status "raised" with the error
NoResponse == [status |-> "none", error |-> "none"]
MaintenanceIdle ==
    /\ mPc = "idle" /\ maintenance_results = <<>> /\ report = <<>>
    /\ alerts = <<>> /\ response = NoResponse
DeployIdle == dPc = "idle" /\ ran = <<>> /\ printed = <<>> /\ exitStatus = 0

Init ==
    /\ \E p \in Passwords, e \in Engines :
        /\ versions = (InitialVersion :> [password |-> p, engine |-> e, stages |-> {CURRENT}])
        /\ dbPassword = p
    /\ last = Result("none", InitialVersion, "ok", FALSE, NoNotification)
    /\ tested = {}
    /\ invocations = <<>>
    /\ PasswordIdle /\ MaintenanceIdle /\ DeployIdle

\* one invocation of the handler per step: event = {SecretId, ClientRequestToken, Step}
InvokeCreateSecret ==
    (\E t \in Tokens : lambda_handler("createSecret", t))
        /\ UNCHANGED <<invocations, pwVars, maintVars, deployVars>>
InvokeSetSecret ==
    (\E t \in Tokens : lambda_handler("setSecret", t))
        /\ UNCHANGED <<invocations, pwVars, maintVars, deployVars>>
InvokeTestSecret ==
    (\E t \in Tokens : lambda_handler("testSecret", t))
        /\ UNCHANGED <<invocations, pwVars, maintVars, deployVars>>
InvokeFinishSecret ==
    (\E t \in Tokens : lambda_handler("finishSecret", t))
        /\ UNCHANGED <<invocations, pwVars, maintVars, deployVars>>
InvokeInvalidStep ==
    (\E t \in Tokens : lambda_handler("invalidStep", t))
        /\ UNCHANGED <<invocations, pwVars, maintVars, deployVars>>

Next ==
    \/ InvokeCreateSecret
    \/ InvokeSetSecret
    \/ InvokeTestSecret
    \/ InvokeFinishSecret
    \/ InvokeInvalidStep

Spec == Init /\ [][Next]_vars

(***************************************************************************)
(* Properties of the rotation handler                                      *)
(***************************************************************************)
StageLabels == [v \in DOMAIN versions |-> versions[v].stages]

\* C1: in every reachable state exactly one version carries the "current"
\* label, whatever steps were invoked and whether they succeeded or failed.
ExactlyOneCurrent == Cardinality(Holders(versions, CURRENT)) = 1

\* finishSecret returned and moved the label to the token's version
ExactlyOneCurrent_Witness ==
    /\ last.step = "finishSecret" /\ last.outcome = "ok"
    /\ Holders(versions, CURRENT) = {last.token}
    /\ InitialVersion \in DOMAIN versions

\* C2: a token's version is labeled "current" only if testSecret succeeded
\* for that token before.
PromotedOnlyAfterTest ==
    \A t \in Tokens : StageOnVersion(versions, CURRENT, t) => t \in tested

\* C3: createSecret for a token whose pending version already exists (as it
\* does after a first createSecret stored it) does not call put_secret_value
\* and leaves the store as it was: the token's version stays the one pending
\* version, with the password of the first invocation.
CreateSecretIdempotent ==
    [][/\ (/\ last'.step = "createSecret" /\ last'.outcome = "ok"
            /\ last'.token \notin DOMAIN versions)
           => /\ last'.put
              /\ Holders(versions', PENDING) = {last'.token}
       /\ (/\ last'.step = "createSecret"
            /\ StageOnVersion(versions, PENDING, last'.token))
           => /\ ~last'.put
              /\ versions' = versions
              /\ Holders(versions', PENDING) = {last'.token}
              /\ last'.outcome \in {"ok", "env_error"}]_vars

\* the second createSecret returned, after a first one that stored the version
CreateSecretIdempotent_Witness ==
    /\ last.step = "createSecret" /\ last.outcome = "ok" /\ ~last.put
    /\ Holders(versions, PENDING) = {last.token}
    /\ DOMAIN versions = {InitialVersion, last.token}
    /\ Holders(versions, CURRENT) = {InitialVersion}

\* C4: before any createSecret and after a successful finishSecret no version
\* carries the "pending" label.
PendingOnlyInFlight ==
    (last.step = "none" \/ (last.step = "finishSecret" /\ last.outcome = "ok"))
        => Holders(versions, PENDING) = {}

\* C5: a step invoked again right after it succeeded, same token, succeeds again
\* (unless an external call fails) and changes neither the stage labels nor the
\* database password.
EveryStepIdempotent ==
    [][(/\ last.step \in Steps /\ last.outcome = "ok"
        /\ last'.step = last.step /\ last'.token = last.token
        /\ last'.outcome # "env_error")
       => /\ last'.outcome = "ok"
          /\ StageLabels' = StageLabels
          /\ dbPassword' = dbPassword]_vars


(***************************************************************************)
(* generate_password (rotate-secret.py)                                    *)
(* A character is modelled by its class; "any" is a character drawn from   *)
(* the whole PASSWORD_CHARSET, whose class is not known.                   *)
(***************************************************************************)
PASSWORD_LENGTH == 32

\* (mutant: the symbol is not among the first characters)
RequiredChars_NoSymbol == <<"lower", "upper", "digit">>

\* one secrets.choice from each of ascii_lowercase, ascii_uppercase, digits, "!@#$%^&*"
RequiredChars == <<"lower", "upper", "digit", "symbol">>

\* range(PASSWORD_LENGTH - 4)
FillCount == PASSWORD_LENGTH - 4

\* list.insert(k - 1, x)
InsertAt(s, k, x) == SubSeq(s, 1, k - 1) \o <<x>> \o SubSeq(s, k, Len(s))

PwStart ==
    /\ pwPc = "start"
    /\ password' = RequiredChars
    /\ pwPc' = "fill"
    /\ UNCHANGED <<rotVars, maintVars, deployVars>>

\* password.append(secrets.choice(PASSWORD_CHARSET)), FillCount times
PwFill ==
    /\ pwPc = "fill"
    /\ password' = password \o [i \in 1..FillCount |-> "any"]
    /\ pwPc' = "shuffle"
    /\ UNCHANGED <<rotVars, maintVars, deployVars>>

\* secrets.SystemRandom().shuffle(password): the list in any order. The result
\* is built by taking the first four elements out and putting each back at any
\* position; the others keep their relative order (they are all "any").
PwShuffle ==
    /\ pwPc = "shuffle"
    /\ LET n == Len(password)
           head == IF n < 4 THEN n ELSE 4
           rest == SubSeq(password, head + 1, n)
       IN  \E k1 \in 1..(Len(rest) + 1) :
           LET s1 == IF head >= 1 THEN InsertAt(rest, k1, password[1]) ELSE rest
           IN  \E k2 \in 1..(Len(s1) + 1) :
               LET s2 == IF head >= 2 THEN InsertAt(s1, k2, password[2]) ELSE s1
               IN  \E k3 \in 1..(Len(s2) + 1) :
                   LET s3 == IF head >= 3 THEN InsertAt(s2, k3, password[3]) ELSE s2
                   IN  \E k4 \in 1..(Len(s3) + 1) :
                       password' = IF head >= 4 THEN InsertAt(s3, k4, password[4]) ELSE s3
    /\ pwPc' = "done"
    /\ UNCHANGED <<rotVars, maintVars, deployVars>>

InitPassword ==
    /\ password = <<>> /\ pwPc = "start"
    /\ RotationIdle /\ MaintenanceIdle /\ DeployIdle

NextPassword == PwStart \/ PwFill \/ PwShuffle

SpecPassword == InitPassword /\ [][NextPassword]_vars

\* C6: the returned password has exactly PASSWORD_LENGTH characters and holds a
\* lowercase letter, an uppercase letter, a digit and a symbol, whatever the
\* random choices and the permutation of the shuffle.
PasswordWellFormed ==
    pwPc = "done" =>
        /\ Len(password) = PASSWORD_LENGTH
        /\ \A c \in {"lower", "upper", "digit", "symbol"} :
               \E i \in 1..Len(password) : password[i] = c

\* a returned password whose four required characters all left the front
PasswordWellFormed_Witness ==
    /\ pwPc = "done"
    /\ \A i \in 1..4 : password[i] = "any"
    /\ password[Len(password)] = "lower"

(***************************************************************************)
(* Maintenance handler (db-maintenance.py)                                 *)
(***************************************************************************)
\* the checks lambda_handler runs, in its order
Tasks == <<"performance_analysis", "statistics_optimization", "data_cleanup",
           "disk_usage_analysis", "blocking_queries_check">>

\* a result record. findings: what the check found; jsonable: whether the
\* 'details' rows hold only values json.dumps accepts (no Decimal, datetime,
\* timedelta)
TaskResult(task, status, severity, findings, jsonable) ==
    [task |-> task, status |-> status, severity |-> severity,
     findings |-> findings, jsonable |-> jsonable]

\* (mutant: a failed check is reported as a warning)
FailedResult_Warning(task) == TaskResult(task, "failed", "warning", {}, TRUE)

\* every check's "except Exception" branch
FailedResult(task) == TaskResult(task, "failed", "critical", {}, TRUE)

\* "if severity == 'info': severity = 'warning'"
RaiseToWarning(severity) == IF severity = "info" THEN "warning" ELSE severity

\* analyze_database_performance: any finding sets 'warning'
PerformanceSeverity(findings) == IF findings = {} THEN "info" ELSE "warning"
PerformanceFindings == SUBSET {"slow_queries", "active_connections", "database_size"}

\* cleanup_old_data: total_deleted > 10000
CleanupSeverity(findings) == IF "large_cleanup" \in findings THEN "warning" ELSE "info"
CleanupFindings == SUBSET {"large_cleanup"}

\* analyze_disk_usage
DiskSeverity(findings) ==
    LET s1 == IF "very_large_database" \in findings THEN "warning" ELSE "info"
        s2 == IF "unused_indexes" \in findings THEN RaiseToWarning(s1) ELSE s1
    IN  IF "very_large_tables" \in findings THEN RaiseToWarning(s2) ELSE s2
DiskFindings == SUBSET {"very_large_database", "unused_indexes", "very_large_tables"}

\* optimize_database_statistics: an ANALYZE that fails is logged and the loop
\* goes on; the severity is 'info' whatever happened
StatisticsFindings == SUBSET {"analyze_failed"}

\* (mutant: long-running queries set 'warning' whatever the severity was)
BlockingSeverity_Downgrades(findings) ==
    IF "long_queries" \in findings THEN "warning"
    ELSE IF "blocking_queries" \in findings THEN "critical" ELSE "info"

\* check_blocking_queries
BlockingSeverity(findings) ==
    LET s1 == IF "blocking_queries" \in findings THEN "critical" ELSE "info"
    IN  IF "long_queries" \in findings THEN RaiseToWarning(s1) ELSE s1
BlockingFindings == SUBSET {"blocking_queries", "long_queries"}

\* ---- generate_maintenance_report --------------------------------------
WithSeverity(rs, sev) == {i \in 1..Len(rs) : rs[i].severity = sev}
WithStatus(rs, st) == {i \in 1..Len(rs) : rs[i].status = st}

\* (mutant: counts only the checks that completed)
TotalTasks_CompletedOnly(rs) == Cardinality(WithStatus(rs, "completed"))

\* total_tasks = len(maintenance_results)
TotalTasks(rs) == Len(rs)

\* (mutant: the warning branch is tested first)
OverallStatus_WarningFirst(rs) ==
    IF WithSeverity(rs, "warning") # {} THEN "warning"
    ELSE IF WithSeverity(rs, "critical") # {} THEN "critical"
    ELSE "healthy"

OverallStatus(rs) ==
    IF WithSeverity(rs, "critical") # {} THEN "critical"
    ELSE IF WithSeverity(rs, "warning") # {} THEN "warning"
    ELSE "healthy"

generate_maintenance_report(rs) ==
    [overall_status |-> OverallStatus(rs),
     total_tasks |-> TotalTasks(rs),
     completed_tasks |-> Cardinality(WithStatus(rs, "completed")),
     failed_tasks |-> Cardinality(WithStatus(rs, "failed")),
     critical_issues |-> Cardinality(WithSeverity(rs, "critical")),
     warning_issues |-> Cardinality(WithSeverity(rs, "warning"))]

\* ---- lambda_handler ----------------------------------------------------
\* (mutant: an error of the notification takes the place of the error)
ReRaised_NotificationError(error, delivery) ==
    IF delivery = "error" THEN "notification_error" ELSE error

\* the bare "raise" after "try: send_failure_notification(...) except: pass"
ReRaised(error, delivery) == error

\* the outermost "except Exception": send_failure_notification, which returns
\* without publishing when no topic is set and swallows a publish error; raise
TopLevelFailure(topic_set, error) ==
    /\ \E delivery \in (IF topic_set THEN {"sent", "error"} ELSE {"skipped"}) :
        /\ alerts' = Append(alerts, [kind |-> "failure", delivery |-> delivery,
                                     error |-> error])
        /\ response' = [status |-> "raised", error |-> ReRaised(error, delivery)]
    /\ mPc' = "done"

\* os.environ[...] of the two variables, get_database_connection
MaintStart ==
    /\ mPc = "start"
    /\ \E outcome \in {"ok", "no_DB_INSTANCE_ID", "no_SNS_TOPIC_ARN", "no_connection_details"} :
        IF outcome = "ok"
        THEN /\ mPc' = Tasks[1]
             /\ UNCHANGED <<alerts, response>>
        ELSE \E topic_set \in (CASE outcome = "no_SNS_TOPIC_ARN" -> {FALSE}
                                  [] outcome = "no_DB_INSTANCE_ID" -> BOOLEAN
                                  [] OTHER -> {TRUE}) :
                TopLevelFailure(topic_set, outcome)
    /\ UNCHANGED <<maintenance_results, report>>
    /\ UNCHANGED <<rotVars, pwVars, deployVars>>

\* what follows the k-th check
AfterTask(k) == IF k < Len(Tasks) THEN Tasks[k + 1] ELSE "update_custom_metrics"

RunTask(k, result) ==
    /\ mPc = Tasks[k]
    /\ maintenance_results' = Append(maintenance_results, result)
    /\ mPc' = AfterTask(k)
    /\ UNCHANGED <<report, alerts, response>>
    /\ UNCHANGED <<rotVars, pwVars, deployVars>>

AnalyzeDatabasePerformance ==
    \/ RunTask(1, FailedResult(Tasks[1]))
    \/ \E f \in PerformanceFindings, decimal_free \in BOOLEAN :
           RunTask(1, TaskResult(Tasks[1], "completed", PerformanceSeverity(f), f,
                                 "slow_queries" \notin f \/ decimal_free))

OptimizeDatabaseStatistics ==
    \/ RunTask(2, FailedResult(Tasks[2]))
    \/ \E f \in StatisticsFindings :
           RunTask(2, TaskResult(Tasks[2], "completed", "info", f, TRUE))

CleanupOldData ==
    \/ RunTask(3, FailedResult(Tasks[3]))
    \/ \E f \in CleanupFindings :
           RunTask(3, TaskResult(Tasks[3], "completed", CleanupSeverity(f), f, TRUE))

AnalyzeDiskUsage ==
    \/ RunTask(4, FailedResult(Tasks[4]))
    \/ \E f \in DiskFindings :
           RunTask(4, TaskResult(Tasks[4], "completed", DiskSeverity(f), f, TRUE))

CheckBlockingQueries ==
    \/ RunTask(5, FailedResult(Tasks[5]))
    \/ \E f \in BlockingFindings :
           RunTask(5, TaskResult(Tasks[5], "completed", BlockingSeverity(f), f, f = {}))

\* update_custom_metrics: put_metric_data; its errors are logged and dropped
UpdateCustomMetrics ==
    /\ mPc = "update_custom_metrics"
    /\ mPc' = "generate_report"
    /\ UNCHANGED <<maintenance_results, report, alerts, response>>
    /\ UNCHANGED <<rotVars, pwVars, deployVars>>

GenerateReport ==
    /\ mPc = "generate_report"
    /\ report' = generate_maintenance_report(maintenance_results)
    /\ mPc' = "alert"
    /\ UNCHANGED <<maintenance_results, alerts, response>>
    /\ UNCHANGED <<rotVars, pwVars, deployVars>>

\* "if critical_issues: send_alert_notification(...)", which swallows its errors
SendAlert ==
    /\ mPc = "alert"
    /\ IF WithSeverity(maintenance_results, "critical") # {}
       THEN \E delivery \in {"sent", "error"} :
               alerts' = Append(alerts, [kind |-> "alert", delivery |-> delivery,
                                         error |-> "none"])
       ELSE UNCHANGED alerts
    /\ mPc' = "return"
    /\ UNCHANGED <<maintenance_results, report, response>>
    /\ UNCHANGED <<rotVars, pwVars, deployVars>>

\* the return statement: json.dumps of the results and the report
Return ==
    /\ mPc = "return"
    /\ IF \A i \in 1..Len(maintenance_results) : maintenance_results[i].jsonable
       THEN /\ response' = [status |-> "200", error |-> "none"]
            /\ mPc' = "done"
            /\ UNCHANGED alerts
       ELSE TopLevelFailure(TRUE, "not_json_serializable")
    /\ UNCHANGED <<maintenance_results, report>>
    /\ UNCHANGED <<rotVars, pwVars, deployVars>>

InitMaint ==
    /\ mPc = "start" /\ maintenance_results = <<>> /\ report = <<>>
    /\ alerts = <<>> /\ response = NoResponse
    /\ RotationIdle /\ PasswordIdle /\ DeployIdle

NextMaint ==
    \/ MaintStart
    \/ AnalyzeDatabasePerformance
    \/ OptimizeDatabaseStatistics
    \/ CleanupOldData
    \/ AnalyzeDiskUsage
    \/ CheckBlockingQueries
    \/ UpdateCustomMetrics
    \/ GenerateReport
    \/ SendAlert
    \/ Return

SpecMaint == InitMaint /\ [][NextMaint]_vars

\* C7 as stated: whatever checks fail, the report counts 6 tasks.
ReportCountsSixTasks ==
    report # <<>> => report.total_tasks = 6

\* C7, amended: whatever checks fail, every check runs, in order, and the
\* report counts 5 tasks, of which those that failed are counted as failed.
FailedTaskDoesNotStopTheRest ==
    report # <<>> =>
        /\ [i \in 1..Len(maintenance_results) |-> maintenance_results[i].task] = Tasks
        /\ report.total_tasks = 5
        /\ report.completed_tasks + report.failed_tasks = 5

\* the first check failed, the last one completed, and the report was built
FailedTaskDoesNotStopTheRest_Witness ==
    /\ report # <<>>
    /\ maintenance_results[1].status = "failed"
    /\ maintenance_results[Len(maintenance_results)].status = "completed"
    /\ report.failed_tasks = 1

\* ---- generate_maintenance_report on any list of results ----------------
Severities == {"info", "warning", "critical", "none"}   \* "none": no 'severity' key
AnyResults ==
    UNION {[1..n -> [status : {"completed", "failed"}, severity : Severities]] :
           n \in 0..MaxResults}

ApplyReport ==
    /\ mPc = "input"
    /\ report' = generate_maintenance_report(maintenance_results)
    /\ mPc' = "output"
    /\ UNCHANGED <<maintenance_results, alerts, response>>
    /\ UNCHANGED <<rotVars, pwVars, deployVars>>

InitReport ==
    /\ mPc = "input" /\ maintenance_results \in AnyResults /\ report = <<>>
    /\ alerts = <<>> /\ response = NoResponse
    /\ RotationIdle /\ PasswordIdle /\ DeployIdle

NextReport == ApplyReport

SpecReport == InitReport /\ [][NextReport]_vars

SeveritiesSeen == {maintenance_results[i].severity : i \in 1..Len(maintenance_results)}

\* C8: the overall status is "critical" iff some result is critical, "warning"
\* iff none is critical and some is warning, and "healthy" otherwise.
OverallStatusIsWorstSeverity ==
    mPc = "output" =>
        /\ report.overall_status = "critical" <=> "critical" \in SeveritiesSeen
        /\ report.overall_status = "warning" <=>
               ("critical" \notin SeveritiesSeen /\ "warning" \in SeveritiesSeen)
        /\ report.overall_status = "healthy" <=>
               ("critical" \notin SeveritiesSeen /\ "warning" \notin SeveritiesSeen)

\* a report over a list that holds a warning before a critical result
OverallStatusIsWorstSeverity_Witness ==
    /\ mPc = "output"
    /\ Len(maintenance_results) >= 2
    /\ maintenance_results[1].severity = "warning"
    /\ maintenance_results[2].severity = "critical"
    /\ report.overall_status = "critical"

(***************************************************************************)
(* Deployment runner (deploy_via_python.py)                                *)
(***************************************************************************)
GitStatusPorcelain == "git status --porcelain"
GitAddAll == "git add -A"
GitCommitMessage == "git commit -m"
GitStatusPlain == "git status"
GitPushMain == "git push origin main"

\* run_command(cmd): what it prints. ok: the command exited 0 (no
\* CalledProcessError); output: result.stdout, or e.stderr, is not empty
RunCommandPrints(cmd, ok, output) ==
    (IF ok THEN <<"ok: " \o cmd>> ELSE <<"failed: " \o cmd, "Error">>)
        \o (IF output THEN <<IF ok THEN "stdout" ELSE "Stderr">> ELSE <<>>)

\* (mutant: a failed staging step goes on to the commit)
AfterAdd_Continue(ok) == "commit"

\* "if not run_command("git add -A"): ... return 1"
AfterAdd(ok) == IF ok THEN "commit" ELSE "done"

\* (mutant: a failed commit ends the run)
AfterCommit_Abort(ok) == IF ok THEN "push" ELSE "done"

\* "if not run_command(commit): ... run_command("git status")"
AfterCommit(ok) == IF ok THEN "push" ELSE "status_again"

\* (mutant: the status returned does not depend on the push)
PushExitStatus_Zero(ok) == 0

\* "if not run_command("git push origin main"): ... return 1", else "return 0"
PushExitStatus(ok) == IF ok THEN 0 ELSE 1

\* os.chdir(project directory); an OSError is not caught: the interpreter exits 1
DeployStart ==
    /\ dPc = "start"
    /\ \E chdir_ok \in BOOLEAN :
        IF chdir_ok
        THEN /\ dPc' = "status"
             /\ printed' = <<"Starting deployment process...", "Working directory">>
             /\ UNCHANGED exitStatus
        ELSE /\ dPc' = "done"
             /\ printed' = <<"Starting deployment process...", "Traceback">>
             /\ exitStatus' = 1
    /\ UNCHANGED ran
    /\ UNCHANGED <<rotVars, pwVars, maintVars>>

GitStatus ==
    /\ dPc = "status"
    /\ \E ok \in BOOLEAN, output \in BOOLEAN :
        /\ ran' = Append(ran, [cmd |-> GitStatusPorcelain, ok |-> ok])
        /\ printed' = printed \o RunCommandPrints(GitStatusPorcelain, ok, output)
    /\ dPc' = "add"
    /\ UNCHANGED exitStatus
    /\ UNCHANGED <<rotVars, pwVars, maintVars>>

GitAdd ==
    /\ dPc = "add"
    /\ \E ok \in BOOLEAN, output \in BOOLEAN :
        /\ ran' = Append(ran, [cmd |-> GitAddAll, ok |-> ok])
        /\ printed' = printed \o RunCommandPrints(GitAddAll, ok, output)
                          \o (IF ok THEN <<>> ELSE <<"Failed to add files">>)
        /\ dPc' = AfterAdd(ok)
        /\ exitStatus' = IF ok THEN exitStatus ELSE 1
    /\ UNCHANGED <<rotVars, pwVars, maintVars>>

GitCommit ==
    /\ dPc = "commit"
    /\ \E ok \in BOOLEAN, output \in BOOLEAN :
        /\ ran' = Append(ran, [cmd |-> GitCommitMessage, ok |-> ok])
        /\ printed' = printed \o RunCommandPrints(GitCommitMessage, ok, output)
                          \o (IF ok THEN <<>> ELSE <<"Failed to commit (possibly no changes)">>)
        /\ dPc' = AfterCommit(ok)
    /\ UNCHANGED exitStatus
    /\ UNCHANGED <<rotVars, pwVars, maintVars>>

GitStatusAgain ==
    /\ dPc = "status_again"
    /\ \E ok \in BOOLEAN, output \in BOOLEAN :
        /\ ran' = Append(ran, [cmd |-> GitStatusPlain, ok |-> ok])
        /\ printed' = printed \o RunCommandPrints(GitStatusPlain, ok, output)
    /\ dPc' = "push"
    /\ UNCHANGED exitStatus
    /\ UNCHANGED <<rotVars, pwVars, maintVars>>

GitPush ==
    /\ dPc = "push"
    /\ \E ok \in BOOLEAN, output \in BOOLEAN :
        /\ ran' = Append(ran, [cmd |-> GitPushMain, ok |-> ok])
        /\ printed' = printed \o RunCommandPrints(GitPushMain, ok, output)
                          \o (IF ok THEN <<"Deployment completed successfully!">>
                                    ELSE <<"Failed to push to GitHub">>)
        /\ exitStatus' = PushExitStatus(ok)
    /\ dPc' = "done"
    /\ UNCHANGED <<rotVars, pwVars, maintVars>>

InitDeploy ==
    /\ dPc = "start" /\ ran = <<>> /\ printed = <<>> /\ exitStatus = 0
    /\ RotationIdle /\ PasswordIdle /\ MaintenanceIdle

NextDeploy ==
    \/ DeployStart
    \/ GitStatus
    \/ GitAdd
    \/ GitCommit
    \/ GitStatusAgain
    \/ GitPush

SpecDeploy == InitDeploy /\ [][NextDeploy]_vars

Ran(cmd, ok) == \E i \in 1..Len(ran) : ran[i] = [cmd |-> cmd, ok |-> ok]
Printed(line) == \E i \in 1..Len(printed) : printed[i] = line

\* C9: when the push fails the runner returns a non-zero status and does not
\* report completion, also when the steps before it succeeded.
PushFailureIsNonZero ==
    (dPc = "done" /\ Ran(GitPushMain, FALSE)) =>
        /\ exitStatus # 0
        /\ ~Printed("Deployment completed successfully!")

\* status, staging and commit succeeded and the push failed
PushFailureIsNonZero_Witness ==
    /\ dPc = "done"
    /\ Ran(GitStatusPorcelain, TRUE) /\ Ran(GitAddAll, TRUE) /\ Ran(GitCommitMessage, TRUE)
    /\ Ran(GitPushMain, FALSE)

\* C10: when the staging step fails the run is over with a non-zero status, and
\* neither the commit nor the push is ever run.
AddFailureAborts ==
    Ran(GitAddAll, FALSE) =>
        /\ dPc = "done" /\ exitStatus # 0
        /\ \A i \in 1..Len(ran) : ran[i].cmd \notin {GitCommitMessage, GitPushMain}

\* the staging step failed after a successful status query
AddFailureAborts_Witness ==
    /\ Ran(GitStatusPorcelain, TRUE) /\ Ran(GitAddAll, FALSE)
    /\ Printed("Failed to add files")

\* C11: a failed commit does not end the run: the next command is the plain
\* status query, the push is run after it, and the exit status is 0 when the
\* push succeeded and 1 when it failed.
CommitFailureTolerated ==
    \A i \in 1..Len(ran) :
        ran[i] = [cmd |-> GitCommitMessage, ok |-> FALSE] =>
            /\ dPc \in {"status_again", "push", "done"}
            /\ dPc # "status_again" => (Len(ran) > i /\ ran[i + 1].cmd = GitStatusPlain)
            /\ dPc = "done" =>
                   /\ Len(ran) = i + 2 /\ ran[i + 2].cmd = GitPushMain
                   /\ exitStatus = (IF ran[i + 2].ok THEN 0 ELSE 1)

\* the commit failed, the status was queried again, the push succeeded
CommitFailureTolerated_Witness ==
    /\ dPc = "done" /\ exitStatus = 0
    /\ Ran(GitCommitMessage, FALSE) /\ Ran(GitStatusPlain, TRUE) /\ Ran(GitPushMain, TRUE)
    /\ Printed("Failed to commit (possibly no changes)")

\* ---- after the checks, and the top-level failure ------------------------
AlertAttempts == {i \in 1..Len(alerts) : alerts[i].kind = "alert"}
FailureAttempts == {i \in 1..Len(alerts) : alerts[i].kind = "failure"}

\* C12: once the checks have run and the handler is over, an alert was
\* attempted iff some result is critical (iff the report's overall status is
\* critical), and the handler returned its status-200 record, whether or not
\* the alert was published.
AlertIffCriticalAndReturns200 ==
    (mPc = "done" /\ report # <<>>) =>
        /\ AlertAttempts # {} <=> WithSeverity(maintenance_results, "critical") # {}
        /\ AlertAttempts # {} <=> report.overall_status = "critical"
        /\ response.status = "200"

\* C13: the handler raises exactly when it attempted a failure notification;
\* it attempts one, with the message of the error, and the error the caller
\* gets is that error whatever became of the notification (sent, failed, or
\* skipped for want of a topic); no status-200 record is returned then.
TopLevelFailureReRaised ==
    /\ FailureAttempts # {} <=> response.status = "raised"
    /\ Cardinality(FailureAttempts) <= 1
    /\ \A i \in FailureAttempts :
           /\ response.error = alerts[i].error
           /\ response.status # "200"

\* the connection details could not be resolved and the publish failed
TopLevelFailureReRaised_Witness ==
    /\ mPc = "done" /\ maintenance_results = <<>>
    /\ alerts = <<[kind |-> "failure", delivery |-> "error",
                   error |-> "no_connection_details"]>>
    /\ response = [status |-> "raised", error |-> "no_connection_details"]

(***************************************************************************)
(* Rotation handler: errors, notifications, the database password          *)
(***************************************************************************)
CurrentRecord == SecretData(versions, StageVersion(versions, CURRENT))

\* C14: an invocation with a step name that is none of the four raises, calls
\* no step function, returns no success record, and leaves the versions,
\* their stage labels and the database password as they were.
InvalidStepRaises ==
    [][last'.step = "invalidStep" =>
           /\ last'.response = "raised" /\ last'.calls = 0
           /\ versions' = versions /\ dbPassword' = dbPassword]_vars

\* an invalid step was rejected while a pending version was in the store
InvalidStepRaises_Witness ==
    /\ last.step = "invalidStep" /\ last.outcome = "error"
    /\ Holders(versions, PENDING) # {}

\* C15: setSecret, when the current record names an engine other than
\* postgres, postgresql or mysql, raises without opening a database
\* connection, and changes neither the database password nor any stage label.
UnsupportedEngineFails ==
    [][(/\ last'.step = "setSecret"
        /\ CurrentRecord.engine \notin {"postgres", "postgresql", "mysql", "absent"})
           => /\ last'.response = "raised" /\ ~last'.connect_called
              /\ dbPassword' = dbPassword
              /\ StageLabels' = StageLabels]_vars

\* set_secret read the pending and the current record and refused the engine
UnsupportedEngineFails_Witness ==
    /\ last.step = "setSecret" /\ last.calls = 1 /\ last.outcome = "error"
    /\ ~last.connect_called
    /\ StageOnVersion(versions, PENDING, last.token)
    /\ CurrentRecord.engine = "oracle"

\* C16: an invocation that reaches finish_secret calls the notification once:
\* with SUCCESS when the label was moved, and then the handler returns; with
\* FAILED when it was not, and then the handler raises. Whether the
\* notification was sent, skipped or failed changes neither.
FinishSecretNotifiesOnce ==
    [][(last'.step = "finishSecret" /\ last'.calls = 1) =>
           /\ Len(last'.notif) = 1
           /\ last'.notif[1].status \in {"SUCCESS", "FAILED"}
           /\ last'.notif[1].status = "SUCCESS" =>
                  /\ StageOnVersion(versions', CURRENT, last'.token)
                  /\ last'.response = "200"
           /\ last'.notif[1].status = "FAILED" =>
                  /\ versions' = versions
                  /\ last'.response = "raised"]_vars

\* the label was moved, the publish call failed, the handler returned
FinishSecretNotifiesOnce_Witness ==
    /\ last.step = "finishSecret" /\ last.response = "200"
    /\ last.notif = <<[status |-> "SUCCESS", delivery |-> "error"]>>
    /\ Holders(versions, CURRENT) = {last.token}

\* C17: a setSecret that returns has connected with the current record, whose
\* password was the database password; afterwards the database password is
\* the password of the token's pending version, and the current version is
\* stored as before.
SetSecretSetsPendingPassword ==
    [][(last'.step = "setSecret" /\ last'.response = "200") =>
           /\ last'.connect_called
           /\ ConnectOk(CurrentRecord, dbPassword)
           /\ StageOnVersion(versions, PENDING, last'.token)
           /\ dbPassword' = versions[last'.token].password
           /\ versions'[StageVersion(versions, CURRENT)]
                  = versions[StageVersion(versions, CURRENT)]]_vars

\* setSecret returned, and the database password is now the pending one, which
\* differs from the current one
SetSecretSetsPendingPassword_Witness ==
    /\ last.step = "setSecret" /\ last.response = "200"
    /\ dbPassword = versions[last.token].password
    /\ dbPassword # CurrentRecord.password
    /\ Holders(versions, CURRENT) = {InitialVersion}

\* C18: the handler returns its status-200 record only when the step function
\* was called and completed without error; every other invocation raises;
\* the step function is called at most once in an invocation.
FailsLoudlyNoRetry ==
    last.step # "none" =>
        /\ last.calls <= 1
        /\ last.response = "200" => (last.calls = 1 /\ last.outcome = "ok")
        /\ last.outcome # "ok" => last.response = "raised"
        /\ last.response \in {"200", "raised"}

\* set_secret was called once, could not connect, and the handler raised
FailsLoudlyNoRetry_Witness ==
    /\ last.step = "setSecret" /\ last.calls = 1 /\ last.connect_called
    /\ last.outcome = "error" /\ last.response = "raised"

\* ---- severities of the checks --------------------------------------------
Results == {maintenance_results[i] : i \in 1..Len(maintenance_results)}

\* C19 as stated: every check that met a failure of an external call, a failed
\* ANALYZE included, reports status "failed" and severity "critical".
EveryExternalFailureIsFailedCritical ==
    \A r \in Results :
        (r.status = "failed" \/ "analyze_failed" \in r.findings) =>
            (r.status = "failed" /\ r.severity = "critical")

\* C19, amended: every check whose failure reaches the check's own handler
\* reports status "failed" and severity "critical" (a failed ANALYZE of one
\* table does not: the statistics check goes on and completes with "info");
\* a failed result is always critical, and one failed check makes the
\* report's overall status "critical" and has the alert attempted.
FailedCheckIsCritical ==
    /\ \A r \in Results :
           /\ r.status = "failed" => r.severity = "critical"
           /\ "analyze_failed" \in r.findings =>
                  (r.status = "completed" /\ r.severity = "info")
    /\ (report # <<>> /\ WithStatus(maintenance_results, "failed") # {}) =>
           /\ report.overall_status = "critical"
           /\ mPc \in {"return", "done"} => AlertAttempts # {}

\* one check failed, every other completed with "info" (the statistics check
\* after a failed ANALYZE), and the alert was attempted
FailedCheckIsCritical_Witness ==
    /\ mPc = "done" /\ report # <<>>
    /\ report.failed_tasks = 1 /\ report.critical_issues = 1
    /\ maintenance_results[3].status = "failed"
    /\ maintenance_results[2].findings = {"analyze_failed"}
    /\ report.warning_issues = 0
    /\ AlertAttempts # {}

\* C20: a completed check reports "critical" only as the blocking-query check
\* and exactly when it found a blocking query, long-running queries or not;
\* every other completed check reports "info" or "warning"; and a finding that
\* sets "warning" is never undone by another finding of the same check.
OnlyBlockingQueriesAreCritical ==
    \A r \in Results : r.status = "completed" =>
        /\ r.severity = "critical" <=>
               (r.task = "blocking_queries_check" /\ "blocking_queries" \in r.findings)
        /\ r.severity \in {"info", "warning", "critical"}
        /\ (r.findings \ {"blocking_queries", "analyze_failed"} # {}) =>
               r.severity \in {"warning", "critical"}
        /\ r.findings = {} => r.severity = "info"

\* blocking and long-running queries found together: critical
OnlyBlockingQueriesAreCritical_Witness ==
    /\ Len(maintenance_results) = 5
    /\ maintenance_results[5].status = "completed"
    /\ maintenance_results[5].findings = {"blocking_queries", "long_queries"}
    /\ maintenance_results[5].severity = "critical"
    /\ maintenance_results[4].findings = {"very_large_database", "very_large_tables"}
    /\ maintenance_results[4].severity = "warning"

\* C21: createSecret, setSecret and testSecret (and a rejected step name),
\* whatever their outcome, leave the "current" label on the version that held
\* it, with the record it held; createSecret adds no version but the one named
\* by its token, labeled "pending" only.
OnlyFinishSecretMovesCurrent ==
    [][last'.step \in {"createSecret", "setSecret", "testSecret", "invalidStep"} =>
           /\ Holders(versions', CURRENT) = Holders(versions, CURRENT)
           /\ \A v \in Holders(versions, CURRENT) :
                  SecretData(versions', v) = SecretData(versions, v)
           /\ DOMAIN versions \subseteq DOMAIN versions'
           /\ (DOMAIN versions' \ DOMAIN versions) \subseteq
                  (IF last'.step = "createSecret" THEN {last'.token} ELSE {})
           /\ \A v \in DOMAIN versions' \ DOMAIN versions :
                  versions'[v].stages = {PENDING}]_vars

\* createSecret stored the token's version and the label stayed where it was
OnlyFinishSecretMovesCurrent_Witness ==
    /\ last.step = "createSecret" /\ last.put /\ last.outcome = "ok"
    /\ Holders(versions, CURRENT) = {InitialVersion}
    /\ StageOnVersion(versions, PENDING, last.token)

\* C22: finishSecret for a token that no createSecret stored a version for
\* raises, and the "current" label stays on the version that held it: the
\* store is never left without a current version.
FinishWithoutPendingFails ==
    [][(last'.step = "finishSecret" /\ last'.token \notin DOMAIN versions) =>
           /\ last'.response = "raised"
           /\ Holders(versions', CURRENT) = Holders(versions, CURRENT)
           /\ Holders(versions', CURRENT) # {}]_vars

\* finish_secret was called for a token with no version, and notified FAILED
FinishWithoutPendingFails_Witness ==
    /\ last.step = "finishSecret" /\ last.calls = 1 /\ last.outcome = "error"
    /\ last.token \notin DOMAIN versions
    /\ Len(last.notif) = 1 /\ last.notif[1].status = "FAILED"
    /\ Holders(versions, CURRENT) = {InitialVersion}

(***************************************************************************)
(* Overlapping createSecret invocations for one request token: the store   *)
(* calls of create_secret are separate steps, and nothing orders the       *)
(* steps of one invocation against those of another                        *)
(***************************************************************************)
Invocations == 1..MaxOverlap
NoSecretData == [password |-> 0, engine |-> "none"]

\* an invocation at the top of create_secret. new_secret_data: the local
\* variable; put: put_secret_value was called; outcome: "running" until the
\* handler returns ("ok") or raises
Started(t) ==
    [pc |-> "check_pending", token |-> t, new_secret_data |-> NoSecretData,
     put |-> FALSE, outcome |-> "running"]

Finished(inv, outcome) == [inv EXCEPT !.pc = "done", !.outcome = outcome]

\* describe_secret, then get_secret_value(AWSPENDING, token): found -> return
CreateCheckPending(i) ==
    /\ invocations[i].pc = "check_pending"
    /\ \E fault \in {"none", "describe_secret", "get_pending"} :
        invocations' = [invocations EXCEPT ![i] =
            IF fault # "none" THEN Finished(invocations[i], "env_error")
            ELSE IF PendingExists(versions, invocations[i].token)
            THEN Finished(invocations[i], "ok")
            ELSE [invocations[i] EXCEPT !.pc = "get_current"]]
    /\ UNCHANGED <<versions, dbPassword, last, tested>>
    /\ UNCHANGED <<pwVars, maintVars, deployVars>>

\* get_secret_value(AWSCURRENT), generate_password, the copy with the new password
CreateGetCurrent(i) ==
    /\ invocations[i].pc = "get_current"
    /\ \E fault \in {"none", "get_current"} :
        IF Raised(fault, "get_current", ~StageFound(versions, CURRENT)) # "ok"
        THEN invocations' = [invocations EXCEPT ![i] =
                 Finished(invocations[i],
                          Raised(fault, "get_current", ~StageFound(versions, CURRENT)))]
        ELSE \E new_password \in Passwords :
                 invocations' = [invocations EXCEPT ![i] =
                     [invocations[i] EXCEPT
                         !.pc = "put_secret_value",
                         !.new_secret_data =
                             [SecretData(versions, StageVersion(versions, CURRENT))
                                 EXCEPT !.password = new_password]]]
    /\ UNCHANGED <<versions, dbPassword, last, tested>>
    /\ UNCHANGED <<pwVars, maintVars, deployVars>>

\* put_secret_value(token, new_secret_data, ['AWSPENDING'])
CreatePutSecretValue(i) ==
    /\ invocations[i].pc = "put_secret_value"
    /\ \E fault \in {"none", "put_secret_value"} :
        LET inv == invocations[i]
            put == Raised(fault, "put_secret_value",
                          ~PutAccepted(versions, inv.token, inv.new_secret_data))
        IN  /\ invocations' = [invocations EXCEPT ![i] =
                    [Finished(inv, put) EXCEPT !.put = TRUE]]
            /\ versions' = IF put = "ok"
                           THEN PutSecretValue(versions, inv.token, inv.new_secret_data,
                                               PENDING)
                           ELSE versions
    /\ UNCHANGED <<dbPassword, last, tested>>
    /\ UNCHANGED <<pwVars, maintVars, deployVars>>

InitOverlap ==
    /\ \E p \in Passwords, e \in Engines :
        /\ versions = (InitialVersion :> [password |-> p, engine |-> e, stages |-> {CURRENT}])
        /\ dbPassword = p
    /\ last = Result("none", InitialVersion, "ok", FALSE, NoNotification)
    /\ tested = {}
    /\ \E t \in Tokens : invocations = [i \in Invocations |-> Started(t)]
    /\ PasswordIdle /\ MaintenanceIdle /\ DeployIdle

CheckPendingStep == \E i \in Invocations : CreateCheckPending(i)
GetCurrentStep == \E i \in Invocations : CreateGetCurrent(i)
PutSecretValueStep == \E i \in Invocations : CreatePutSecretValue(i)

NextOverlap ==
    \/ CheckPendingStep
    \/ GetCurrentStep
    \/ PutSecretValueStep

SpecOverlap == InitOverlap /\ [][NextOverlap]_vars

\* C23: however the store calls of overlapping createSecret invocations for
\* one token interleave, no step changes the record of a version that is in
\* the store, at most one version is pending, and an invocation that
\* returned from its put finds the password it generated under its token.
OverlapKeepsFirstPendingPassword ==
    [][/\ \A v \in DOMAIN versions :
              v \in DOMAIN versions' /\ SecretData(versions', v) = SecretData(versions, v)
       /\ Cardinality(Holders(versions', PENDING)) <= 1
       /\ \A i \in Invocations :
              (invocations'[i].put /\ invocations'[i].outcome = "ok") =>
                  /\ StageOnVersion(versions', PENDING, invocations'[i].token)
                  /\ versions'[invocations'[i].token].password
                         = invocations'[i].new_secret_data.password]_vars

\* both invocations passed the existence check and called put_secret_value
\* with different passwords: the first was stored, the second was rejected
OverlapKeepsFirstPendingPassword_Witness ==
    /\ invocations # <<>>
    /\ invocations[1].put /\ invocations[1].outcome = "ok"
    /\ invocations[2].put /\ invocations[2].outcome = "error"
    /\ invocations[1].token = invocations[2].token
    /\ invocations[1].new_secret_data.password # invocations[2].new_secret_data.password
    /\ versions[invocations[1].token].password = invocations[1].new_secret_data.password

====
